---- MODULE Spec2Model ----
(***************************************************************************)
(* Command dispatch and target resolution of barman (barman/cli.py).      *)
(*                                                                         *)
(* Strings are sequences of character codes, so that Python's string      *)
(* order (used by sorted()) is computed, not assumed.  The diagnostic      *)
(* channel (barman.output), the lock (barman.lockfile) and the Server      *)
(* collaborator (barman.server) are outside cli.py: every call cli.py      *)
(* makes to them is recorded, in call order, in the invocation's trace.    *)
(***************************************************************************)
EXTENDS Integers, Sequences, FiniteSets, TLC

\* Number of concurrent invocations on the host.
NumProcs == 2
\* Largest number of configured servers.
MaxServers == 2
\* Largest number of names in a server_name argument list.
MaxArgs == 2
\* Largest number of backups in a server's catalogue.
MaxBackups == 2
\* Largest number of --tablespace rules of a recover.
MaxRules == 2

Procs == 1..NumProcs

-----------------------------------------------------------------------------
(* Strings *)

\* "b", "ab", "a", "ba": candidate server names, deliberately not sorted
Pool == << <<2>>, <<1, 2>>, <<1>>, <<2, 1>> >>
\* "all"
ALL == <<1, 12, 12>>
\* the symbolic backup ids "latest", "last", "oldest", "first"
LATEST == <<12, 1, 20>>
LAST == <<12, 1, 19>>
OLDEST == <<15, 12>>
FIRST == <<6, 9>>
\* ':'
Colon == 58
\* "c": a name that is never configured
UnknownName == <<3>>
\* the empty string
Empty == <<>>

ConfNames == {Pool[i] : i \in 1..MaxServers}

RECURSIVE LexLess(_, _)
LexLess(a, b) ==
    IF a = <<>> THEN b # <<>>
    ELSE IF b = <<>> THEN FALSE
    ELSE IF Head(a) # Head(b) THEN Head(a) < Head(b)
    ELSE LexLess(Tail(a), Tail(b))

\* sorted in descending order
RECURSIVE sorted_reverse(_)
sorted_reverse(S) ==
    IF S = {} THEN <<>>
    ELSE LET m == CHOOSE x \in S : \A y \in S \ {x} : LexLess(y, x)
         IN  <<m>> \o sorted_reverse(S \ {m})

RECURSIVE sorted(_)
sorted(S) ==
    IF S = {} THEN <<>>
    ELSE LET m == CHOOSE x \in S : \A y \in S \ {x} : LexLess(x, y)
         IN  <<m>> \o sorted(S \ {m})

-----------------------------------------------------------------------------
(* Values *)

\* Python's None, and an object reference
None == <<>>
Some(x) == <<x>>

\* barman.server.Server(conf): the object holds its configuration
Server(conf) == Some([config |-> conf])

\* a call in the trace: a leveled message, or a collaborator operation
\* more holds what else the call was given (a backup record, a hint)
EvX(level, kind, arg, more) == [level |-> level, kind |-> kind, arg |-> arg, more |-> more]
Ev(level, kind, arg) == EvX(level, kind, arg, <<>>)

\* the state of one invocation's run: the calls made so far, whether the
\* process has exited and with which status
NewCtx == [out |-> <<>>, exited |-> FALSE, exit_code |-> 0]

VARIABLES
    config,      \* barman.__config__: servers() and servers_msg_list
    backups,     \* per server name: its backup catalogue, oldest first
    lock,        \* holder of the global cron lock, 0 when free
    lock_perm,   \* per invocation: may it access the lock directory
    inv,         \* per invocation: the command and its arguments
    pc,          \* per invocation: position in the command
    ctx,         \* per invocation: trace, exited, exit status
    servers,     \* per invocation: cron's local server dictionary
    todo         \* per invocation: names cron's loop has still to visit

vars == <<config, backups, lock, lock_perm, inv, pc, ctx, servers, todo>>

\* what no command changes
env == <<config, backups, lock_perm, inv>>

-----------------------------------------------------------------------------
(* barman.output *)

error_occurred(out) ==
    \E i \in 1..Len(out) : out[i].level \in {"error", "exception"}

output_msg(c, level, kind, arg) ==
    IF c.exited THEN c ELSE [c EXCEPT !.out = Append(@, Ev(level, kind, arg))]

output_error(c, kind, arg) == output_msg(c, "error", kind, arg)
output_warning(c, kind, arg) == output_msg(c, "warning", kind, arg)
output_info(c, kind, arg) == output_msg(c, "info", kind, arg)
output_exception(c, kind) == output_msg(c, "exception", kind, Empty)

\* for m in msgs: output.<level>(m)
output_each(c, level, kind, msgs) ==
    IF c.exited THEN c
    ELSE [c EXCEPT !.out =
             @ \o [i \in 1..Len(msgs) |-> Ev(level, kind, msgs[i])]]

close_and_exit(c) ==
    IF c.exited THEN c
    ELSE [c EXCEPT !.exited = TRUE,
                   !.exit_code = IF error_occurred(c.out) THEN 1 ELSE 0]

\* a call of an operation of the Server collaborator
server_op(c, kind, name) == output_msg(c, "op", kind, name)

-----------------------------------------------------------------------------
(* barman.config *)

RECURSIVE config_get_server(_, _)
config_get_server(confs, name) ==
    IF confs = <<>> THEN None
    ELSE IF Head(confs).name = name THEN Some(Head(confs))
    ELSE config_get_server(Tail(confs), name)

-----------------------------------------------------------------------------
(* barman.cli: helpers *)

\* args is None, or a namespace with a server_name list
NoArgs == [none |-> TRUE]
Args(names) == [server_name |-> names]
IsNone(args) == "none" \in DOMAIN args

\* d[k] = v on a Python dict
DictSet(d, k, v) == [n \in DOMAIN d \cup {k} |-> IF n = k THEN v ELSE d[n]]
EmptyDict == [n \in {} |-> None]

\* server_error_output that only ever warns
server_error_output_warn_only(c, server, is_error, check_active) ==
    LET conf == server[1].config
        c1 == IF conf.disabled
              THEN output_each(c, "warning", "disabled", conf.msg_list)
              ELSE c
        check_active1 == IF conf.disabled THEN FALSE ELSE check_active
    IN  IF check_active1 /\ ~conf.active
        THEN output_warning(c1, "not_active", conf.name)
        ELSE c1

\* server_error_output that goes on to the active check of a disabled server
server_error_output_keeps_check(c, server, is_error, check_active) ==
    LET conf == server[1].config
        c1 == IF conf.disabled
              THEN IF is_error
                   THEN close_and_exit(
                            output_each(c, "error", "disabled", conf.msg_list))
                   ELSE output_each(c, "warning", "disabled", conf.msg_list)
              ELSE c
    IN  IF check_active /\ ~conf.active
        THEN IF is_error
             THEN close_and_exit(output_error(c1, "not_active", conf.name))
             ELSE output_warning(c1, "not_active", conf.name)
        ELSE c1

\* server_error_output that reports a server that is not active whatever
\* check_active says
server_error_output_unchecked(c, server, is_error, check_active) ==
    LET conf == server[1].config
        c1 == IF conf.disabled
              THEN IF is_error
                   THEN close_and_exit(
                            output_each(c, "error", "disabled", conf.msg_list))
                   ELSE output_each(c, "warning", "disabled", conf.msg_list)
              ELSE c
    IN  IF ~conf.disabled /\ ~conf.active
        THEN IF is_error
             THEN close_and_exit(output_error(c1, "not_active", conf.name))
             ELSE output_warning(c1, "not_active", conf.name)
        ELSE c1

server_error_output(c, server, is_error, check_active) ==
    LET conf == server[1].config
        c1 == IF conf.disabled
              THEN IF is_error
                   THEN close_and_exit(
                            output_each(c, "error", "disabled", conf.msg_list))
                   ELSE output_each(c, "warning", "disabled", conf.msg_list)
              ELSE c
        check_active1 == IF conf.disabled THEN FALSE ELSE check_active
    IN  IF check_active1 /\ ~conf.active
        THEN IF is_error
             THEN close_and_exit(output_error(c1, "not_active", conf.name))
             ELSE output_warning(c1, "not_active", conf.name)
        ELSE c1

\* is_unknown_server ending the run at a server without configuration
is_unknown_server_fatal(c, server, name) ==
    IF server = None
    THEN [c |-> close_and_exit(output_error(c, "unknown_server", name)), ret |-> TRUE]
    ELSE [c |-> c, ret |-> FALSE]

is_unknown_server(c, server, name) ==
    IF server = None
    THEN [c |-> output_error(c, "unknown_server", name), ret |-> TRUE]
    ELSE [c |-> c, ret |-> FALSE]

\* get_server_list_all testing both skip flags for every server, with a
\* notice for each that applies
RECURSIVE get_server_list_all_two_notices(_, _, _, _, _)
get_server_list_all_two_notices(c, server_dict, confs, skip_inactive, skip_disabled) ==
    IF confs = <<>> THEN [c |-> c, ret |-> server_dict]
    ELSE LET conf == Head(confs)
             c1 == IF skip_inactive /\ ~conf.active
                   THEN output_info(c, "skip_inactive", conf.name) ELSE c
             c2 == IF skip_disabled /\ conf.disabled
                   THEN output_info(c1, "skip_disabled", conf.name) ELSE c1
         IN  get_server_list_all_two_notices(c2,
                 IF c2 = c THEN DictSet(server_dict, conf.name, Server(conf)) ELSE server_dict,
                 Tail(confs), skip_inactive, skip_disabled)

\* the loop over barman.__config__.servers() of the 'all' branch
RECURSIVE get_server_list_all(_, _, _, _, _)
get_server_list_all(c, server_dict, confs, skip_inactive, skip_disabled) ==
    IF confs = <<>> THEN [c |-> c, ret |-> server_dict]
    ELSE LET conf == Head(confs) IN
         IF skip_inactive /\ ~conf.active
         THEN get_server_list_all(output_info(c, "skip_inactive", conf.name),
                  server_dict, Tail(confs), skip_inactive, skip_disabled)
         ELSE IF skip_disabled /\ conf.disabled
         THEN get_server_list_all(output_info(c, "skip_disabled", conf.name),
                  server_dict, Tail(confs), skip_inactive, skip_disabled)
         ELSE get_server_list_all(c,
                  DictSet(server_dict, conf.name, Server(conf)),
                  Tail(confs), skip_inactive, skip_disabled)

\* get_server_list_named giving up at the first name without configuration
RECURSIVE get_server_list_named_stop(_, _, _)
get_server_list_named_stop(server_dict, confs, names) ==
    IF names = <<>> THEN server_dict
    ELSE LET conf == config_get_server(confs, Head(names)) IN
         IF conf = None THEN DictSet(server_dict, Head(names), None)
         ELSE get_server_list_named_stop(
                  DictSet(server_dict, Head(names), Server(conf[1])),
                  confs, Tail(names))

\* the loop over args.server_name of the explicit branch
RECURSIVE get_server_list_named(_, _, _)
get_server_list_named(server_dict, confs, names) ==
    IF names = <<>> THEN server_dict
    ELSE LET conf == config_get_server(confs, Head(names)) IN
         get_server_list_named(
             DictSet(server_dict, Head(names),
                     IF conf = None THEN None ELSE Server(conf[1])),
             confs, Tail(names))

\* get_server_list skipping inactive servers whatever skip_inactive says
get_server_list_skips(c, cfg, args, skip_inactive, skip_disabled, on_error_stop, suppress_error) ==
    LET global_error_list == cfg.servers_msg_list
        c1 == IF global_error_list # <<>> /\ ~suppress_error
              THEN output_each(c, "error", "conflict", global_error_list)
              ELSE c
    IN  IF global_error_list # <<>> /\ on_error_stop
        THEN [c |-> close_and_exit(c1), ret |-> EmptyDict]
        ELSE IF IsNone(args) \/ args.server_name[1] = ALL
        THEN get_server_list_all(c1, EmptyDict, cfg.servers, TRUE, skip_disabled)
        ELSE [c |-> c1,
              ret |-> get_server_list_named(EmptyDict, cfg.servers,
                                            args.server_name)]

\* get_server_list going on after the conflicts whatever on_error_stop says
get_server_list_no_stop(c, cfg, args, skip_inactive, skip_disabled, on_error_stop, suppress_error) ==
    LET global_error_list == cfg.servers_msg_list
        c1 == IF global_error_list # <<>> /\ ~suppress_error
              THEN output_each(c, "error", "conflict", global_error_list)
              ELSE c
    IN  IF IsNone(args) \/ args.server_name[1] = ALL
        THEN get_server_list_all(c1, EmptyDict, cfg.servers,
                                 skip_inactive, skip_disabled)
        ELSE [c |-> c1,
              ret |-> get_server_list_named(EmptyDict, cfg.servers,
                                            args.server_name)]

\* ret is the returned dict; when the call ends the process nothing is
\* returned and ret is the empty dict
get_server_list(c, cfg, args, skip_inactive, skip_disabled, on_error_stop, suppress_error) ==
    LET global_error_list == cfg.servers_msg_list
        c1 == IF global_error_list # <<>> /\ ~suppress_error
              THEN output_each(c, "error", "conflict", global_error_list)
              ELSE c
    IN  IF global_error_list # <<>> /\ on_error_stop
        THEN [c |-> close_and_exit(c1), ret |-> EmptyDict]
        ELSE IF IsNone(args) \/ args.server_name[1] = ALL
        THEN get_server_list_all(c1, EmptyDict, cfg.servers,
                                 skip_inactive, skip_disabled)
        ELSE [c |-> c1,
              ret |-> get_server_list_named(EmptyDict, cfg.servers,
                                            args.server_name)]

-----------------------------------------------------------------------------
(* barman.cli: the commands over a list of servers *)

\* an optional argument that was given
Given(args, field) == field \in DOMAIN args /\ args[field] # None

\* the body of list_server's loop
list_server_body(c, server, name, args) ==
    LET conf == server[1].config
        c1 == output_msg(c, "init", "list_server", name)
    IN  IF conf.disabled THEN output_msg(c1, "result", "list_server_disabled", name)
        ELSE IF ~conf.active THEN output_msg(c1, "result", "list_server_not_active", name)
        ELSE output_msg(c1, "result", "list_server", name)

\* server.config.<field> = args.<field>, when the argument was given
config_set(c, args, field, name) ==
    IF Given(args, field) THEN output_msg(c, "set", field, name) ELSE c

\* the body of backup's loop
backup_body(c, server, name, args) ==
    LET u == is_unknown_server(c, server, name) IN
    IF u.ret THEN u.c
    ELSE LET c1 == server_error_output(u.c, server, TRUE, TRUE)
             c2 == config_set(c1, args, "reuse_backup", name)
             c3 == config_set(c2, args, "retry_sleep", name)
             c4 == config_set(c3, args, "retry_times", name)
             c5 == config_set(c4, args, "immediate_checkpoint", name)
         IN  server_op(c5, "backup", name)

\* the body of list_backup's loop
list_backup_body(c, server, name, args) ==
    LET c1 == output_msg(c, "init", "list_backup", name)
        u == is_unknown_server(c1, server, name)
    IN  IF u.ret THEN u.c
        ELSE server_op(server_error_output(u.c, server, FALSE, TRUE), "list_backups", name)

\* the body of status's loop
status_body(c, server, name, args) ==
    LET u == is_unknown_server(c, server, name) IN
    IF u.ret THEN u.c
    ELSE LET c1 == server_error_output(u.c, server, FALSE, TRUE)
             c2 == output_msg(c1, "init", "status", name)
         IN  server_op(c2, "status", name)

\* the body of rebuild_xlogdb's loop
rebuild_xlogdb_body(c, server, name, args) ==
    LET u == is_unknown_server(c, server, name) IN
    IF u.ret THEN u.c
    ELSE server_op(server_error_output(u.c, server, TRUE, TRUE), "rebuild_xlogdb", name)

\* the body of show_server's loop
show_server_body(c, server, name, args) ==
    LET u == is_unknown_server(c, server, name) IN
    IF u.ret THEN u.c
    ELSE LET c1 == server_error_output(u.c, server, FALSE, FALSE)
             c2 == output_msg(c1, "init", "show_server", name)
         IN  server_op(c2, "show", name)

\* the body of check's loop
check_body(c, server, name, args) ==
    LET u == is_unknown_server(c, server, name) IN
    IF u.ret THEN u.c
    ELSE LET c1 == IF ~server[1].config.active
                   THEN output_msg(u.c, "init", "check_not_active", name)
                   ELSE output_msg(u.c, "init", "check", name)
         IN  server_op(c1, "check", name)

loop_body(cmd, c, server, name, args) ==
    CASE cmd = "list_server" -> list_server_body(c, server, name, args)
      [] cmd = "backup" -> backup_body(c, server, name, args)
      [] cmd = "list_backup" -> list_backup_body(c, server, name, args)
      [] cmd = "status" -> status_body(c, server, name, args)
      [] cmd = "rebuild_xlogdb" -> rebuild_xlogdb_body(c, server, name, args)
      [] cmd = "show_server" -> show_server_body(c, server, name, args)
      [] cmd = "check" -> check_body(c, server, name, args)

\* for name in <names>: the body of cmd
RECURSIVE for_each(_, _, _, _, _)
for_each(cmd, c, server_dict, names, args) ==
    IF names = <<>> \/ c.exited THEN c
    ELSE for_each(cmd, loop_body(cmd, c, server_dict[Head(names)], Head(names), args),
                  server_dict, Tail(names), args)

\* the loop going through the names as the request gives them
for_request_order(cmd, c, server_dict, args) ==
    IF "server_name" \in DOMAIN args /\ args.server_name[1] # ALL
    THEN for_each(cmd, c, server_dict, args.server_name, args)
    ELSE for_each(cmd, c, server_dict, sorted(DOMAIN server_dict), args)

\* for name in sorted(servers): the body of cmd
for_sorted(cmd, c, server_dict, args) == for_each(cmd, c, server_dict, sorted(DOMAIN server_dict), args)

list_server(c, cfg, args) ==
    LET r == get_server_list(c, cfg, NoArgs, FALSE, FALSE, TRUE, FALSE)
    IN  close_and_exit(for_sorted("list_server", r.c, r.ret, args))

backup(c, cfg, args) ==
    LET r == get_server_list(c, cfg, args, TRUE, TRUE, TRUE, FALSE)
    IN  close_and_exit(for_sorted("backup", r.c, r.ret, args))

list_backup(c, cfg, args) ==
    LET r == get_server_list(c, cfg, args, FALSE, FALSE, TRUE, FALSE)
    IN  close_and_exit(for_sorted("list_backup", r.c, r.ret, args))

status(c, cfg, args) ==
    LET r == get_server_list(c, cfg, args, FALSE, FALSE, TRUE, FALSE)
    IN  close_and_exit(for_sorted("status", r.c, r.ret, args))

rebuild_xlogdb(c, cfg, args) ==
    LET r == get_server_list(c, cfg, args, FALSE, FALSE, TRUE, FALSE)
    IN  close_and_exit(for_sorted("rebuild_xlogdb", r.c, r.ret, args))

show_server(c, cfg, args) ==
    LET r == get_server_list(c, cfg, args, FALSE, FALSE, TRUE, FALSE)
    IN  close_and_exit(for_sorted("show_server", r.c, r.ret, args))

check(c, cfg, args) ==
    LET c1 == IF args.nagios THEN output_msg(c, "writer", "nagios", Empty) ELSE c
        r == get_server_list(c1, cfg, args, TRUE, FALSE, TRUE, FALSE)
    IN  close_and_exit(for_sorted("check", r.c, r.ret, args))

\* exec_diagnose gets the conflict messages only with a non-empty server dict
diagnose(c, cfg, args) ==
    LET r == get_server_list(c, cfg, NoArgs, FALSE, FALSE, FALSE, TRUE)
        errors_list == IF DOMAIN r.ret # {} THEN cfg.servers_msg_list ELSE <<>>
        c1 == IF errors_list # <<>>
              THEN server_op(r.c, "exec_diagnose_errors", Empty)
              ELSE server_op(r.c, "exec_diagnose", Empty)
    IN  close_and_exit(c1)

-----------------------------------------------------------------------------
(* barman.server: the backup catalogue of one server, oldest first *)

get_last_backup(bs) == IF bs = <<>> THEN None ELSE Some(bs[Len(bs)].backup_id)
get_first_backup(bs) == IF bs = <<>> THEN None ELSE Some(bs[1].backup_id)

RECURSIVE get_backup(_, _)
get_backup(bs, backup_id) ==
    IF bs = <<>> \/ backup_id = None THEN None
    ELSE IF Head(bs).backup_id = backup_id[1] THEN Some(Head(bs))
    ELSE get_backup(Tail(bs), backup_id)

-----------------------------------------------------------------------------
(* barman.cli: the commands on one backup of one server *)

\* get_server classifying the server as for a command that is not dangerous
get_server_never_dangerous(c, cfg, args, dangerous) ==
    LET conf == config_get_server(cfg.servers, args.server_name)
        global_error_list == cfg.servers_msg_list
    IN  IF global_error_list # <<>>
        THEN [c |-> close_and_exit(output_each(c, "error", "conflict", global_error_list)), ret |-> None]
        ELSE IF conf = None THEN [c |-> c, ret |-> None]
        ELSE [c |-> server_error_output(c, Server(conf[1]), FALSE, TRUE), ret |-> Server(conf[1])]

\* get_server looking at the server's configuration before the conflicts
get_server_unknown_first(c, cfg, args, dangerous) ==
    LET conf == config_get_server(cfg.servers, args.server_name)
        global_error_list == cfg.servers_msg_list
    IN  IF conf = None THEN [c |-> c, ret |-> None]
        ELSE IF global_error_list # <<>>
        THEN [c |-> close_and_exit(output_each(c, "error", "conflict", global_error_list)), ret |-> None]
        ELSE [c |-> server_error_output(c, Server(conf[1]), dangerous, TRUE), ret |-> Server(conf[1])]

get_server(c, cfg, args, dangerous) ==
    LET conf == config_get_server(cfg.servers, args.server_name)
        global_error_list == cfg.servers_msg_list
    IN  IF global_error_list # <<>>
        THEN [c |-> close_and_exit(output_each(c, "error", "conflict", global_error_list)), ret |-> None]
        ELSE IF conf = None THEN [c |-> c, ret |-> None]
        ELSE [c |-> server_error_output(c, Server(conf[1]), dangerous, TRUE), ret |-> Server(conf[1])]

\* parse_backup_id taking 'last' for the first backup
parse_backup_id_last_is_first(bs, args) ==
    LET backup_id == IF args.backup_id = LATEST THEN get_last_backup(bs)
                     ELSE IF args.backup_id \in {LAST, OLDEST, FIRST} THEN get_first_backup(bs)
                     ELSE Some(args.backup_id)
    IN  get_backup(bs, backup_id)

parse_backup_id(bs, args) ==
    LET backup_id == IF args.backup_id \in {LATEST, LAST} THEN get_last_backup(bs)
                     ELSE IF args.backup_id \in {OLDEST, FIRST} THEN get_first_backup(bs)
                     ELSE Some(args.backup_id)
    IN  get_backup(bs, backup_id)

\* a message with something more than its argument
output_more(c, level, kind, arg, more) ==
    IF c.exited THEN c ELSE [c EXCEPT !.out = Append(@, EvX(level, kind, arg, more))]

unknown_backup(c, args) == output_more(c, "error", "unknown_backup", args.backup_id, args.server_name)

\* an operation of the Server collaborator on a backup
server_op_on(c, kind, name, backup_info) == output_more(c, "op", kind, name, backup_info)

\* rule.split(':', 1)
RECURSIVE split_colon(_, _)
split_colon(head, rest) ==
    IF rest = <<>> THEN <<head>>
    ELSE IF Head(rest) = Colon THEN <<head, Tail(rest)>>
    ELSE split_colon(Append(head, Head(rest)), Tail(rest))

\* recover_rules keeping the first location given for a name
RECURSIVE recover_rules_first_wins(_, _, _)
recover_rules_first_wins(c, tablespaces, rules) ==
    IF rules = <<>> \/ c.exited THEN [c |-> c, ret |-> tablespaces]
    ELSE LET parts == split_colon(<<>>, Head(rules)) IN
         IF Len(parts) = 2
         THEN recover_rules_first_wins(c,
                  IF parts[1] \in DOMAIN tablespaces THEN tablespaces
                  ELSE DictSet(tablespaces, parts[1], parts[2]), Tail(rules))
         ELSE [c |-> close_and_exit(output_msg(c, "error", "invalid_rule", Head(rules))), ret |-> tablespaces]

\* the loop decoding the relocation rules; update() of a list that is not
\* a pair raises ValueError
RECURSIVE recover_rules(_, _, _)
recover_rules(c, tablespaces, rules) ==
    IF rules = <<>> \/ c.exited THEN [c |-> c, ret |-> tablespaces]
    ELSE LET parts == split_colon(<<>>, Head(rules)) IN
         IF Len(parts) = 2
         THEN recover_rules(c, DictSet(tablespaces, parts[1], parts[2]), Tail(rules))
         ELSE [c |-> close_and_exit(output_msg(c, "error", "invalid_rule", Head(rules))), ret |-> tablespaces]

\* recover_validate reporting every unknown name before it ends the run
RECURSIVE recover_validate_report_all(_, _, _)
recover_validate_report_all(c, items, valid_tablespaces) ==
    IF items = <<>> THEN IF error_occurred(c.out) THEN close_and_exit(c) ELSE c
    ELSE IF \A i \in 1..Len(valid_tablespaces) : valid_tablespaces[i] # Head(items)
    THEN recover_validate_report_all(output_more(c, "error", "invalid_tablespace_name", Head(items), valid_tablespaces), Tail(items), valid_tablespaces)
    ELSE recover_validate_report_all(c, Tail(items), valid_tablespaces)

\* the loop validating the rules, over the dict's keys in the order items
RECURSIVE recover_validate(_, _, _)
recover_validate(c, items, valid_tablespaces) ==
    IF items = <<>> \/ c.exited THEN c
    ELSE IF \A i \in 1..Len(valid_tablespaces) : valid_tablespaces[i] # Head(items)
    THEN close_and_exit(output_more(c, "error", "invalid_tablespace_name", Head(items), valid_tablespaces))
    ELSE recover_validate(c, Tail(items), valid_tablespaces)

\* recover without the test of the destination directory
recover_any_destination(c, cfg, bs, args, items) ==
    LET g == get_server(c, cfg, args, TRUE)
        u == is_unknown_server(g.c, g.ret, args.server_name)
        c1 == IF u.ret THEN close_and_exit(u.c) ELSE u.c
        backup_info == parse_backup_id(bs, args)
        c2 == IF c1.exited THEN c1
              ELSE IF backup_info = None \/ backup_info[1].status # "DONE"
              THEN close_and_exit(unknown_backup(c1, args))
              ELSE c1
        t == IF args.tablespace # None /\ args.tablespace[1] # <<>>
             THEN recover_rules(c2, EmptyDict, args.tablespace[1])
             ELSE [c |-> c2, ret |-> EmptyDict]
        c3 == IF t.c.exited THEN t.c ELSE recover_validate(t.c, items, backup_info[1].tablespaces)
        c5 == config_set(c3, args, "retry_sleep", args.server_name)
        c6 == config_set(c5, args, "retry_times", args.server_name)
        c7 == IF c6.exited THEN c6
              ELSE server_op_on(c6, "recover", args.server_name, <<backup_info[1], t.ret>>)
    IN  close_and_exit(c7)

\* recover of a backup in any status
recover_any_status(c, cfg, bs, args, items) ==
    LET g == get_server(c, cfg, args, TRUE)
        u == is_unknown_server(g.c, g.ret, args.server_name)
        c1 == IF u.ret THEN close_and_exit(u.c) ELSE u.c
        backup_info == parse_backup_id(bs, args)
        c2 == IF c1.exited THEN c1
              ELSE IF backup_info = None
              THEN close_and_exit(unknown_backup(c1, args))
              ELSE c1
        t == IF args.tablespace # None /\ args.tablespace[1] # <<>>
             THEN recover_rules(c2, EmptyDict, args.tablespace[1])
             ELSE [c |-> c2, ret |-> EmptyDict]
        c3 == IF t.c.exited THEN t.c ELSE recover_validate(t.c, items, backup_info[1].tablespaces)
        c4 == IF \E i \in 1..Len(args.destination_directory) : args.destination_directory[i] = Colon
              THEN close_and_exit(output_msg(c3, "error", "destination_colon", Empty))
              ELSE c3
        c5 == config_set(c4, args, "retry_sleep", args.server_name)
        c6 == config_set(c5, args, "retry_times", args.server_name)
        c7 == IF c6.exited THEN c6
              ELSE server_op_on(c6, "recover", args.server_name, <<backup_info[1], t.ret>>)
    IN  close_and_exit(c7)

\* bs is the server's catalogue; items is the iteration order of the rules dict
recover(c, cfg, bs, args, items) ==
    LET g == get_server(c, cfg, args, TRUE)
        u == is_unknown_server(g.c, g.ret, args.server_name)
        c1 == IF u.ret THEN close_and_exit(u.c) ELSE u.c
        backup_info == parse_backup_id(bs, args)
        c2 == IF c1.exited THEN c1
              ELSE IF backup_info = None \/ backup_info[1].status # "DONE"
              THEN close_and_exit(unknown_backup(c1, args))
              ELSE c1
        t == IF args.tablespace # None /\ args.tablespace[1] # <<>>
             THEN recover_rules(c2, EmptyDict, args.tablespace[1])
             ELSE [c |-> c2, ret |-> EmptyDict]
        c3 == IF t.c.exited THEN t.c ELSE recover_validate(t.c, items, backup_info[1].tablespaces)
        c4 == IF \E i \in 1..Len(args.destination_directory) : args.destination_directory[i] = Colon
              THEN close_and_exit(output_msg(c3, "error", "destination_colon", Empty))
              ELSE c3
        c5 == config_set(c4, args, "retry_sleep", args.server_name)
        c6 == config_set(c5, args, "retry_times", args.server_name)
        c7 == IF c6.exited THEN c6
              ELSE server_op_on(c6, "recover", args.server_name, <<backup_info[1], t.ret>>)
    IN  close_and_exit(c7)

show_backup(c, cfg, bs, args) ==
    LET g == get_server(c, cfg, args, FALSE)
        u == is_unknown_server(g.c, g.ret, args.server_name)
        backup_info == parse_backup_id(bs, args)
        c1 == IF u.ret THEN u.c
              ELSE IF backup_info = None THEN unknown_backup(u.c, args)
              ELSE server_op_on(u.c, "show_backup", args.server_name, backup_info)
    IN  close_and_exit(c1)

list_files(c, cfg, bs, args) ==
    LET g == get_server(c, cfg, args, FALSE)
        u == is_unknown_server(g.c, g.ret, args.server_name)
        c1 == IF u.ret THEN close_and_exit(u.c) ELSE u.c
        backup_info == parse_backup_id(bs, args)
        c2 == IF backup_info = None THEN close_and_exit(unknown_backup(c1, args)) ELSE c1
        c3 == server_op_on(c2, "get_list_of_files", args.server_name, backup_info)
    IN  close_and_exit(output_info(c3, "file_lines", args.server_name))

\* delete going on after the unknown backup was reported
delete_unchecked(c, cfg, bs, args) ==
    LET g == get_server(c, cfg, args, TRUE)
        u == is_unknown_server(g.c, g.ret, args.server_name)
        c1 == IF u.ret THEN close_and_exit(u.c) ELSE u.c
        backup_info == parse_backup_id(bs, args)
        c2 == IF backup_info = None THEN unknown_backup(c1, args) ELSE c1
    IN  close_and_exit(server_op_on(c2, "delete_backup", args.server_name, backup_info))

delete(c, cfg, bs, args) ==
    LET g == get_server(c, cfg, args, TRUE)
        u == is_unknown_server(g.c, g.ret, args.server_name)
        c1 == IF u.ret THEN close_and_exit(u.c) ELSE u.c
        backup_info == parse_backup_id(bs, args)
        c2 == IF backup_info = None THEN close_and_exit(unknown_backup(c1, args)) ELSE c1
    IN  close_and_exit(server_op_on(c2, "delete_backup", args.server_name, backup_info))

-----------------------------------------------------------------------------
(* barman.lockfile: GlobalCronLock, a non-blocking exclusive file lock *)

\* the lock directory, as printed in the permission message
LockDir == <<4>>

\* __enter__: the directory must be accessible before the lock can be tried
GlobalCronLock_enter(l, perm, p) ==
    IF ~perm THEN [outcome |-> "LockFilePermissionDenied", lock |-> l]
    ELSE IF l # 0 THEN [outcome |-> "LockFileBusy", lock |-> l]
    ELSE [outcome |-> "acquired", lock |-> p]

\* __exit__
GlobalCronLock_exit(l, p) == IF l = p THEN 0 ELSE l

-----------------------------------------------------------------------------
(* barman.cli: main *)

\* the handlers of main around the dispatched command, and its last line
main_except(c, exc) == close_and_exit(output_exception(c, exc))

-----------------------------------------------------------------------------
(* barman.cli: cron, one step at a time *)

Done(p) == pc' = [pc EXCEPT ![p] = "done"]

\* cron_except with the two handlers exchanged
cron_except_swapped(c, exc) ==
    IF exc = "LockFileBusy"
    THEN close_and_exit(output_error(c, "permission_denied", LockDir))
    ELSE close_and_exit(output_info(c, "another_cron", Empty))

\* cron_except reporting both lock exceptions as information
cron_except_all_info(c, exc) ==
    IF exc = "LockFileBusy"
    THEN close_and_exit(output_info(c, "another_cron", Empty))
    ELSE close_and_exit(output_info(c, "permission_denied", LockDir))

\* the handlers of cron's try, followed by its last line
cron_except(c, exc) ==
    IF exc = "LockFileBusy"
    THEN close_and_exit(output_info(c, "another_cron", Empty))
    ELSE close_and_exit(output_error(c, "permission_denied", LockDir))

\* cron_with_exit releasing only at the end of the block, not on an exception
cron_with_exit_return_only(l, p, path) ==
    IF path = "return" THEN GlobalCronLock_exit(l, p) ELSE l

\* the with statement is left, by whatever path: the lock is given back
cron_with_exit(l, p, path) == GlobalCronLock_exit(l, p)

\* CronEnter with a busy lock ignored: the body runs all the same
CronEnter_ignore_busy(p) ==
    /\ pc[p] = "start" /\ inv[p].cmd = "cron"
    /\ LET r == GlobalCronLock_enter(lock, lock_perm[p], p) IN
       IF r.outcome # "LockFilePermissionDenied"
       THEN /\ lock' = r.lock
            /\ pc' = [pc EXCEPT ![p] = "with"]
            /\ UNCHANGED ctx
       ELSE /\ ctx' = [ctx EXCEPT ![p] = cron_except(@, r.outcome)]
            /\ Done(p)
            /\ UNCHANGED lock
    /\ UNCHANGED <<env, servers, todo>>

\* CronEnter that waits for a busy lock instead of reporting it
CronEnter_wait(p) ==
    /\ pc[p] = "start" /\ inv[p].cmd = "cron"
    /\ LET r == GlobalCronLock_enter(lock, lock_perm[p], p) IN
       /\ r.outcome # "LockFileBusy"
       /\ IF r.outcome = "acquired"
          THEN /\ lock' = r.lock
               /\ pc' = [pc EXCEPT ![p] = "with"]
               /\ UNCHANGED ctx
          ELSE /\ ctx' = [ctx EXCEPT ![p] = cron_except(@, r.outcome)]
               /\ Done(p)
               /\ UNCHANGED lock
    /\ UNCHANGED <<env, servers, todo>>

\* try: with lockfile.GlobalCronLock(...)
CronEnter(p) ==
    /\ pc[p] = "start" /\ inv[p].cmd = "cron"
    /\ LET r == GlobalCronLock_enter(lock, lock_perm[p], p) IN
       IF r.outcome = "acquired"
       THEN /\ lock' = r.lock
            /\ pc' = [pc EXCEPT ![p] = "with"]
            /\ UNCHANGED ctx
       ELSE /\ ctx' = [ctx EXCEPT ![p] = cron_except(@, r.outcome)]
            /\ Done(p)
            /\ UNCHANGED lock
    /\ UNCHANGED <<env, servers, todo>>

\* servers = get_server_list(skip_inactive=True)
CronGetServerList(p) ==
    /\ pc[p] = "with"
    /\ LET r == get_server_list(ctx[p], config, NoArgs, TRUE, FALSE, TRUE, FALSE) IN
       /\ ctx' = [ctx EXCEPT ![p] = r.c]
       /\ IF r.c.exited
          THEN /\ lock' = cron_with_exit(lock, p, "SystemExit")
               /\ Done(p)
               /\ UNCHANGED <<servers, todo>>
          ELSE /\ servers' = [servers EXCEPT ![p] = r.ret]
               /\ todo' = [todo EXCEPT ![p] = sorted(DOMAIN r.ret)]
               /\ pc' = [pc EXCEPT ![p] = "loop"]
               /\ UNCHANGED lock
    /\ UNCHANGED env

\* one iteration of: for server in sorted(servers)
\* the collaborator's cron may raise; main then reports it
CronServer(p) ==
    /\ pc[p] = "loop" /\ todo[p] # <<>>
    /\ LET server == Head(todo[p])
           c1 == server_error_output(ctx[p], servers[p][server], TRUE, TRUE)
           c2 == server_op(c1, "cron", server)
       IN  IF c1.exited
           THEN /\ ctx' = [ctx EXCEPT ![p] = c1]
                /\ lock' = cron_with_exit(lock, p, "SystemExit")
                /\ Done(p)
                /\ UNCHANGED todo
           ELSE \/ /\ ctx' = [ctx EXCEPT ![p] = c2]
                   /\ todo' = [todo EXCEPT ![p] = Tail(@)]
                   /\ UNCHANGED <<lock, pc>>
                \/ /\ ctx' = [ctx EXCEPT ![p] = main_except(c2, "Exception")]
                   /\ lock' = cron_with_exit(lock, p, "Exception")
                   /\ Done(p)
                   /\ UNCHANGED todo
    /\ UNCHANGED <<env, servers>>

\* the loop is over: the with block ends, then output.close_and_exit()
CronLeave(p) ==
    /\ pc[p] = "loop" /\ todo[p] = <<>>
    /\ lock' = cron_with_exit(lock, p, "return")
    /\ ctx' = [ctx EXCEPT ![p] = close_and_exit(@)]
    /\ Done(p)
    /\ UNCHANGED <<env, servers, todo>>

\* the user interrupts the process: KeyboardInterrupt reaches main
CronInterrupt(p) ==
    /\ pc[p] \in {"start", "with", "loop"} /\ inv[p].cmd = "cron"
    /\ lock' = IF pc[p] = "start" THEN lock
               ELSE cron_with_exit(lock, p, "KeyboardInterrupt")
    /\ ctx' = [ctx EXCEPT ![p] = main_except(@, "KeyboardInterrupt")]
    /\ Done(p)
    /\ UNCHANGED <<env, servers, todo>>

-----------------------------------------------------------------------------
(* Configurations and invocations *)

\* the error messages of a disabled server, not in sorted order
MsgList(name) == <<name \o <<9>>, name \o <<8>>>>

Conf(name, active, disabled) == [name |-> name, active |-> active, disabled |-> disabled, msg_list |-> IF disabled THEN MsgList(name) ELSE <<>>]

\* servers() lists the configured servers in configuration order, here the
\* order of Pool, which is not the sorted order
ServersOf(S, flags) ==
    LET In(n) == n \in S
        ns == SelectSeq(SubSeq(Pool, 1, MaxServers), In)
    IN  [i \in 1..Len(ns) |-> Conf(ns[i], flags[ns[i]][1], flags[ns[i]][2])]

ServerSeqs == UNION {{ServersOf(S, fl) : fl \in [S -> BOOLEAN \X BOOLEAN]} : S \in SUBSET ConfNames}

ConflictLists == {<<>>, << <<5, 2>>, <<5, 1>> >>}

Configs == {[servers |-> s, servers_msg_list |-> m] : s \in ServerSeqs, m \in ConflictLists}

Invocation(cmd, args) == [cmd |-> cmd, args |-> args]

\* the catalogue bs for every server
AllBackups(bs) == [n \in ConfNames |-> bs]
NoBackups == AllBackups(<<>>)

\* every invocation on the host is a cron
InitCron ==
    /\ config \in Configs
    /\ backups = NoBackups
    /\ lock = 0
    /\ lock_perm \in [Procs -> BOOLEAN]
    /\ inv = [p \in Procs |-> Invocation("cron", NoArgs)]
    /\ pc = [p \in Procs |-> "start"]
    /\ ctx = [p \in Procs |-> NewCtx]
    /\ servers = [p \in Procs |-> EmptyDict]
    /\ todo = [p \in Procs |-> <<>>]

NextCron ==
    \E p \in Procs :
        \/ CronEnter(p)
        \/ CronGetServerList(p)
        \/ CronServer(p)
        \/ CronLeave(p)
        \/ CronInterrupt(p)

SpecCron == InitCron /\ [][NextCron]_vars

-----------------------------------------------------------------------------
(* Any command: main dispatches it *)

\* the iteration orders a Python dict with these keys may have
KeyOrders(S) == {f \in [1..Cardinality(S) -> S] : \A i, j \in 1..Cardinality(S) : f[i] = f[j] => i = j}

\* the keys of the rules dict of a recover
RuleKeys(args) ==
    IF "tablespace" \in DOMAIN args /\ args.tablespace # None
    THEN DOMAIN recover_rules(NewCtx, EmptyDict, args.tablespace[1]).ret
    ELSE {}

\* p.dispatch: the command named on the command line
dispatch(cmd, c, cfg, bs, args, items) ==
    CASE cmd = "list_server" -> list_server(c, cfg, args)
      [] cmd = "show_server" -> show_server(c, cfg, args)
      [] cmd = "status" -> status(c, cfg, args)
      [] cmd = "check" -> check(c, cfg, args)
      [] cmd = "diagnose" -> diagnose(c, cfg, args)
      [] cmd = "backup" -> backup(c, cfg, args)
      [] cmd = "list_backup" -> list_backup(c, cfg, args)
      [] cmd = "show_backup" -> show_backup(c, cfg, bs, args)
      [] cmd = "list_files" -> list_files(c, cfg, bs, args)
      [] cmd = "recover" -> recover(c, cfg, bs, args, items)
      [] cmd = "delete" -> delete(c, cfg, bs, args)
      [] cmd = "rebuild_xlogdb" -> rebuild_xlogdb(c, cfg, args)

Commands == {"list_server", "show_server", "status", "check", "diagnose", "backup", "list_backup", "show_backup", "list_files", "recover", "delete", "rebuild_xlogdb"}

\* the catalogue of the server a command on one backup names
CatalogueOf(args) ==
    IF "backup_id" \in DOMAIN args /\ args.server_name \in DOMAIN backups
    THEN backups[args.server_name]
    ELSE <<>>

\* a command other than cron, from its first line to the exit of the process
Run(p) ==
    /\ pc[p] = "start" /\ inv[p].cmd \in Commands
    /\ \E items \in KeyOrders(RuleKeys(inv[p].args)) :
          ctx' = [ctx EXCEPT ![p] = dispatch(inv[p].cmd, @, config, CatalogueOf(inv[p].args), inv[p].args, items)]
    /\ Done(p)
    /\ UNCHANGED <<env, lock, servers, todo>>

\* the names a command line may give
ArgNames == ConfNames \cup {UnknownName, ALL}
NameLists == UNION {[1..n -> ArgNames] : n \in 1..MaxArgs}

BackupOptions ==
    {[reuse_backup |-> None, retry_sleep |-> None, retry_times |-> None],
     [reuse_backup |-> Some("link"), retry_sleep |-> Some(1), retry_times |-> Some(0), immediate_checkpoint |-> Some(TRUE)]}

WithNames(l, o) == [f \in DOMAIN o \cup {"server_name"} |-> IF f = "server_name" THEN l ELSE o[f]]

ListInvocations ==
    {Invocation("list_server", [minimal |-> FALSE]), Invocation("diagnose", NoArgs)}
    \cup {Invocation(cmd, [server_name |-> l]) : cmd \in {"list_backup", "status", "rebuild_xlogdb", "show_server"}, l \in NameLists}
    \cup {Invocation("backup", WithNames(l, o)) : l \in NameLists, o \in BackupOptions}
    \cup {Invocation("check", [server_name |-> l, nagios |-> n]) : l \in NameLists, n \in BOOLEAN}

\* backup ids "2<i>"; the one after the last is in no catalogue
Bid(i) == <<50, i>>
BackupIds == {LATEST, LAST, OLDEST, FIRST} \cup {Bid(i) : i \in 1..(MaxBackups + 1)}

\* tablespace names "t1", "t2", and "t9", which no backup has
TS1 == <<20, 1>>
TS2 == <<20, 2>>
TS9 == <<20, 9>>
TablespaceLists == {<<>>, <<TS1, TS2>>}

Catalogues ==
    UNION {{[i \in 1..n |-> [backup_id |-> Bid(i), status |-> st[i], tablespaces |-> ts]] :
               st \in [1..n -> {"DONE", "FAILED"}], ts \in TablespaceLists} :
           n \in 0..MaxBackups}

\* "/x", and "h:/x"
Destinations == {<<47, 24>>, <<8, Colon, 47, 24>>}

\* "t1:/x", "t1:/z:1", "t2:/y", "m", ":/x", "t1:", "t9:/x"
RulePool == {TS1 \o <<Colon, 47, 24>>, TS1 \o <<Colon, 47, 26, Colon, 1>>, TS2 \o <<Colon, 47, 25>>, <<13>>, <<Colon, 47, 24>>, TS1 \o <<Colon>>, TS9 \o <<Colon, 47, 24>>}
RuleLists == UNION {[1..n -> RulePool] : n \in 0..MaxRules}

RetryOptions == {[retry_sleep |-> None, retry_times |-> None], [retry_sleep |-> Some(1), retry_times |-> Some(0)]}

RecoverArgs(name, id, rules, dest, o) == [server_name |-> name, backup_id |-> id, tablespace |-> rules, destination_directory |-> dest, retry_sleep |-> o.retry_sleep, retry_times |-> o.retry_times]

\* a command on one backup reads one server's configuration and the conflicts
OneServerConfigs == {c \in Configs : \A i \in 1..Len(c.servers) : c.servers[i].name = Pool[1]}
OneNames == {Pool[1], UnknownName}

BackupInvocations ==
    {Invocation(cmd, [server_name |-> n, backup_id |-> id]) : cmd \in {"show_backup", "list_files", "delete"}, n \in OneNames, id \in BackupIds}
    \cup {Invocation("recover", RecoverArgs(n, id, None, d, o)) : n \in OneNames, id \in BackupIds, d \in Destinations, o \in RetryOptions}

\* a recover with relocation rules, of the last backup of a sound server
RuleInvocations == {Invocation("recover", RecoverArgs(Pool[1], LATEST, Some(r), d, o)) : r \in RuleLists, d \in Destinations, o \in RetryOptions}
SoundConfig == [servers |-> <<Conf(Pool[1], TRUE, FALSE)>>, servers_msg_list |-> <<>>]
DoneCatalogues == {<<[backup_id |-> Bid(1), status |-> "DONE", tablespaces |-> ts]>> : ts \in TablespaceLists}

\* one invocation of the command i, alone on the host
InitOne(i) ==
    /\ lock = 0
    /\ lock_perm = [p \in Procs |-> TRUE]
    /\ inv = [p \in Procs |-> IF p = 1 THEN i ELSE Invocation("none", NoArgs)]
    /\ pc = [p \in Procs |-> IF p = 1 THEN "start" ELSE "idle"]
    /\ ctx = [p \in Procs |-> NewCtx]
    /\ servers = [p \in Procs |-> EmptyDict]
    /\ todo = [p \in Procs |-> <<>>]

Init ==
    \/ InitCron
    \/ /\ config \in Configs
       /\ backups = NoBackups
       /\ \E i \in ListInvocations : InitOne(i)
    \/ /\ config \in OneServerConfigs
       /\ backups \in {AllBackups(bs) : bs \in Catalogues}
       /\ \E i \in BackupInvocations : InitOne(i)
    \/ /\ config = SoundConfig
       /\ backups \in {AllBackups(bs) : bs \in DoneCatalogues}
       /\ \E i \in RuleInvocations : InitOne(i)

Next ==
    \/ NextCron
    \/ \E p \in Procs : Run(p)

Spec == Init /\ [][Next]_vars

-----------------------------------------------------------------------------
(* get_server_list and server_error_output, called on their own *)

\* get_server_list(args, skip_inactive, skip_disabled, on_error_stop, suppress_error)
CallGetServerList(p) ==
    /\ pc[p] = "start" /\ inv[p].cmd = "get_server_list"
    /\ LET a == inv[p].args
           r == get_server_list(ctx[p], config, a.args, a.skip_inactive, a.skip_disabled, a.on_error_stop, a.suppress_error)
       IN  /\ ctx' = [ctx EXCEPT ![p] = r.c]
           /\ servers' = [servers EXCEPT ![p] = r.ret]
           /\ pc' = [pc EXCEPT ![p] = IF r.c.exited THEN "done" ELSE "returned"]
    /\ UNCHANGED <<env, lock, todo>>

ResolveCalls ==
    {Invocation("get_server_list", [args |-> a, skip_inactive |-> si, skip_disabled |-> sd, on_error_stop |-> st, suppress_error |-> su]) :
        a \in {NoArgs} \cup {Args(l) : l \in NameLists}, si \in BOOLEAN, sd \in BOOLEAN, st \in BOOLEAN, su \in BOOLEAN}

InitResolve ==
    /\ config \in Configs
    /\ backups = NoBackups
    /\ \E i \in ResolveCalls : InitOne(i)

SpecResolve == InitResolve /\ [][\E p \in Procs : CallGetServerList(p)]_vars

\* server_error_output(server, is_error, check_active)
CallServerErrorOutput(p) ==
    /\ pc[p] = "start" /\ inv[p].cmd = "server_error_output"
    /\ LET a == inv[p].args
           c == server_error_output(ctx[p], a.server, a.is_error, a.check_active)
       IN  /\ ctx' = [ctx EXCEPT ![p] = c]
           /\ pc' = [pc EXCEPT ![p] = IF c.exited THEN "done" ELSE "returned"]
    /\ UNCHANGED <<env, lock, servers, todo>>

ClassifyCalls(cfg) ==
    {Invocation("server_error_output", [server |-> Server(cfg.servers[i]), is_error |-> e, check_active |-> a]) :
        i \in 1..Len(cfg.servers), e \in BOOLEAN, a \in BOOLEAN}

InitClassify ==
    /\ config \in Configs
    /\ backups = NoBackups
    /\ \E i \in ClassifyCalls(config) : InitOne(i)

SpecClassify == InitClassify /\ [][\E p \in Procs : CallServerErrorOutput(p)]_vars

\* parse_backup_id(server, args), called twice by one caller; the trace keeps
\* the id asked, the catalogue at the call and the record returned
CallParseBackupId(p) ==
    /\ pc[p] \in {"start", "returned"} /\ inv[p].cmd = "parse_backup_id"
    /\ \E id \in BackupIds :
          LET bs == backups[inv[p].args.server_name]
              ret == parse_backup_id(bs, [server_name |-> inv[p].args.server_name, backup_id |-> id])
          IN  ctx' = [ctx EXCEPT ![p] = output_more(@, "call", "parse_backup_id", id, <<bs, ret>>)]
    /\ pc' = [pc EXCEPT ![p] = IF @ = "start" THEN "returned" ELSE "done"]
    /\ UNCHANGED <<env, lock, servers, todo>>

\* catalogues of backups without tablespaces
PlainCatalogues == {bs \in Catalogues : \A i \in 1..Len(bs) : bs[i].tablespaces = <<>>}

\* the collaborator adds, removes or updates backups between the calls
StoreChange ==
    /\ \E bs \in PlainCatalogues : backups' = AllBackups(bs) /\ backups' # backups
    /\ UNCHANGED <<config, lock, lock_perm, inv, pc, ctx, servers, todo>>

InitParse ==
    /\ config = SoundConfig
    /\ backups \in {AllBackups(bs) : bs \in PlainCatalogues}
    /\ InitOne(Invocation("parse_backup_id", [server_name |-> Pool[1]]))

NextParse ==
    \/ \E p \in Procs : CallParseBackupId(p)
    \/ StoreChange

SpecParse == InitParse /\ [][NextParse]_vars

\* the decoding of recover's relocation rules (args.tablespace), on its own;
\* the dict it builds is kept in servers
CallRecoverRules(p) ==
    /\ pc[p] = "start" /\ inv[p].cmd = "recover_rules"
    /\ LET r == recover_rules(ctx[p], EmptyDict, inv[p].args.tablespace)
       IN  /\ ctx' = [ctx EXCEPT ![p] = r.c]
           /\ servers' = [servers EXCEPT ![p] = r.ret]
           /\ pc' = [pc EXCEPT ![p] = IF r.c.exited THEN "done" ELSE "returned"]
    /\ UNCHANGED <<env, lock, todo>>

InitRules ==
    /\ config = SoundConfig
    /\ backups = NoBackups
    /\ \E r \in RuleLists : InitOne(Invocation("recover_rules", [tablespace |-> r]))

SpecRules == InitRules /\ [][\E p \in Procs : CallRecoverRules(p)]_vars

\* cron invocations only, with the scheduling the host guarantees: an
\* invocation that is about to try the lock does try it.  Nothing is assumed
\* of the steps made while the lock is held: the collaborator may never return.
LiveCron == SpecCron /\ \A p \in Procs : WF_vars(CronEnter(p))

-----------------------------------------------------------------------------
(* Reading a trace *)

IsOp(e) == e.level = "op"
Ops(out) == SelectSeq(out, IsOp)
Has(out, level, kind) == \E i \in 1..Len(out) : out[i].level = level /\ out[i].kind = kind
Args_of(evs) == [i \in 1..Len(evs) |-> evs[i].arg]

\* the invocation is inside the block guarded by the lock
InBody(p) == pc[p] \in {"with", "loop"}
Interrupted(out) == Has(out, "exception", "KeyboardInterrupt")

-----------------------------------------------------------------------------
(* The maintenance lock *)

\* C1: at most one cron invocation is inside the maintenance body at a time,
\* and the one inside holds the lock; an invocation that tries the lock while
\* another holds it reports 'Another cron is running', ends, and calls no
\* server's cron.
C1_OneSweepAtATime ==
    /\ [](\A p, q \in Procs : InBody(p) /\ InBody(q) => p = q)
    /\ [](\A p \in Procs : InBody(p) => lock = p)
    /\ [][\A p \in Procs :
            (/\ pc[p] = "start" /\ pc'[p] # "start" /\ lock # 0 /\ lock_perm[p]
             /\ ~Interrupted(ctx'[p].out))
            => /\ pc'[p] = "done"
               /\ ctx'[p].out = <<Ev("info", "another_cron", Empty)>>]_vars
    /\ [](\A p \in Procs :
            Has(ctx[p].out, "info", "another_cron") => Ops(ctx[p].out) = <<>>)

C1_Witness ==
    \E p, q \in Procs :
        /\ InBody(p) /\ Ops(ctx[p].out) # <<>>
        /\ pc[q] = "done" /\ ctx[q].out = <<Ev("info", "another_cron", Empty)>>

\* C2: the lock is released on every path out of the body: whoever has
\* terminated does not hold it, the lock is held only by an invocation inside
\* the body, and once every invocation has terminated the lock is free.
C2_LockReleased ==
    /\ \A p \in Procs : pc[p] = "done" => lock # p
    /\ lock # 0 => InBody(lock)
    /\ (\A p \in Procs : pc[p] = "done") => lock = 0

\* an invocation left the body by an exception after calling a server's
\* cron, and another one then acquired the lock
C2_Witness ==
    \E p, q \in Procs :
        /\ pc[p] = "done" /\ Ops(ctx[p].out) # <<>>
        /\ Has(ctx[p].out, "exception", "Exception")
        /\ lock = q /\ q # p

\* C3: an invocation that may not access the lock directory reports
\* permission denied, never 'Another cron is running', and never enters the
\* body; an invocation that may access it never reports permission denied;
\* no invocation reports both.
C3_PermissionDenied ==
    \A p \in Procs :
        /\ ~lock_perm[p] =>
              /\ ~InBody(p)
              /\ ~Has(ctx[p].out, "info", "another_cron")
              /\ Ops(ctx[p].out) = <<>>
              /\ (pc[p] = "done" /\ ~Interrupted(ctx[p].out)) =>
                    ctx[p].out = <<Ev("error", "permission_denied", LockDir)>>
        /\ lock_perm[p] => ~Has(ctx[p].out, "error", "permission_denied")
        /\ ~(/\ Has(ctx[p].out, "error", "permission_denied")
             /\ Has(ctx[p].out, "info", "another_cron"))

\* permission is denied to one invocation while another holds the lock
C3_Witness ==
    \E p, q \in Procs :
        /\ pc[p] = "done"
        /\ ctx[p].out = <<Ev("error", "permission_denied", LockDir)>>
        /\ lock = q /\ q # p

\* C4: acquisition does not wait: every invocation gets past the attempt,
\* to its end or into the body, even if the holder never releases the lock;
\* and the attempt on a held lock is the invocation's last step.
C4_NoBlockingWait ==
    /\ \A p \in Procs : (pc[p] = "start") ~> (pc[p] = "done" \/ lock = p)
    /\ [][\A p \in Procs :
            (pc[p] = "start" /\ pc'[p] # "start" /\ lock # 0) => pc'[p] = "done"]_vars

\* an invocation has terminated while another still holds the lock
C4_Witness ==
    \E p, q \in Procs :
        /\ pc[p] = "done" /\ Has(ctx[p].out, "info", "another_cron")
        /\ lock = q /\ InBody(q)

-----------------------------------------------------------------------------
(* The maintenance sweep *)

\* the invocation acquired the lock, was not interrupted, met no failure of
\* the collaborator, and has terminated
SweepDone(p) ==
    /\ inv[p].cmd = "cron" /\ pc[p] = "done"
    /\ ~Has(ctx[p].out, "info", "another_cron")
    /\ ~Has(ctx[p].out, "error", "permission_denied")
    /\ \A i \in 1..Len(ctx[p].out) : ctx[p].out[i].level # "exception"

ActiveNames == {config.servers[i].name : i \in {j \in 1..Len(config.servers) : config.servers[j].active}}
ConfOfName(n) == config_get_server(config.servers, n)[1]

\* the active servers with no disabled active server at or before them in
\* name order
BeforeDisabled ==
    {n \in ActiveNames :
        \A m \in ActiveNames :
            ConfOfName(m).disabled => (m # n /\ ~LexLess(m, n))}

Ascending(names) == \A i \in 1..(Len(names) - 1) : LexLess(names[i], names[i + 1])
Elems(seq) == {seq[i] : i \in 1..Len(seq)}

CronCalls(p) == Ops(ctx[p].out)

\* C5 as claimed: a sweep with no conflict and no failure of the collaborator
\* calls cron on every active server once, in name order, and on no other.
C5_EveryActiveServer ==
    \A p \in Procs :
        (SweepDone(p) /\ config.servers_msg_list = <<>>) =>
            /\ Elems(Args_of(CronCalls(p))) = ActiveNames
            /\ Ascending(Args_of(CronCalls(p)))
            /\ \A i \in 1..Len(CronCalls(p)) : CronCalls(p)[i].kind = "cron"

\* C5: a sweep with no conflict and no failure of the collaborator calls cron
\* once each, in name order, on the active servers that come before the first
\* active server that is disabled (on all of them when none is), and on no
\* inactive server; when an active server is disabled the sweep ends with
\* that server's messages as errors.
C5_ActiveUpToDisabled ==
    \A p \in Procs :
        (SweepDone(p) /\ config.servers_msg_list = <<>>) =>
            /\ Elems(Args_of(CronCalls(p))) = BeforeDisabled
            /\ Ascending(Args_of(CronCalls(p)))
            /\ \A i \in 1..Len(CronCalls(p)) : CronCalls(p)[i].kind = "cron"
            /\ BeforeDisabled # ActiveNames =>
                  /\ Has(ctx[p].out, "error", "disabled")
                  /\ ctx[p].exit_code # 0
            /\ BeforeDisabled = ActiveNames => ~error_occurred(ctx[p].out)

\* a sweep over two active servers, in name order though configured in the
\* opposite order
C5_Witness ==
    \E p \in Procs :
        /\ SweepDone(p) /\ config.servers_msg_list = <<>>
        /\ Len(CronCalls(p)) >= 2
        /\ LexLess(config.servers[2].name, config.servers[1].name)

-----------------------------------------------------------------------------
(* Resolving the servers of a request *)

ConfiguredNames == {config.servers[i].name : i \in 1..Len(config.servers)}

\* get_server_list was called by p and has returned or ended the process
Resolved(p) == inv[p].cmd = "get_server_list" /\ pc[p] \in {"returned", "done"}
AllSentinel(args) == IsNone(args) \/ args.server_name[1] = ALL
Requested(args) == Elems(args.server_name)

\* the conflict messages, each as one error, in the order of the list
ConflictErrors == [i \in 1..Len(config.servers_msg_list) |-> Ev("error", "conflict", config.servers_msg_list[i])]

\* C6: with no conflict, get_server_list for the all-sentinel (no args, or
\* 'all' first in the request) without skip flags returns a dict whose keys
\* are exactly the configured names, each mapped to the server of that name;
\* iterating it sorted gives every key once, in ascending name order.
C6_AllIsEveryServer ==
    \A p \in Procs :
        (/\ Resolved(p) /\ config.servers_msg_list = <<>>
         /\ AllSentinel(inv[p].args.args)
         /\ ~inv[p].args.skip_inactive /\ ~inv[p].args.skip_disabled)
        => /\ pc[p] = "returned"
           /\ DOMAIN servers[p] = ConfiguredNames
           /\ \A n \in DOMAIN servers[p] :
                 servers[p][n] # None /\ servers[p][n] = Server(ConfOfName(n))
           /\ LET names == sorted(DOMAIN servers[p]) IN
              /\ Ascending(names)
              /\ Elems(names) = ConfiguredNames
              /\ Len(names) = Len(config.servers)

\* 'all' followed by another name, over two servers of which one is
\* inactive and one disabled
C6_Witness ==
    \E p \in Procs :
        /\ Resolved(p) /\ config.servers_msg_list = <<>>
        /\ ~IsNone(inv[p].args.args) /\ Len(inv[p].args.args.server_name) = 2
        /\ inv[p].args.args.server_name[1] = ALL
        /\ ~inv[p].args.skip_inactive /\ ~inv[p].args.skip_disabled
        /\ Cardinality(DOMAIN servers[p]) = 2
        /\ \E n, m \in DOMAIN servers[p] :
              ~servers[p][n][1].config.active /\ servers[p][m][1].config.disabled

\* C7 as claimed: with no conflict, for a request naming at least one server
\* without configuration, the dict has a null entry for each such name and
\* the server for each configured name of the request.
C7_NullForUnknownAnyList ==
    \A p \in Procs :
        (/\ Resolved(p) /\ config.servers_msg_list = <<>>
         /\ ~IsNone(inv[p].args.args)
         /\ \E n \in Requested(inv[p].args.args) : n \notin ConfiguredNames \cup {ALL})
        => \A n \in Requested(inv[p].args.args) \ {ALL} :
              /\ n \in DOMAIN servers[p]
              /\ n \notin ConfiguredNames => servers[p][n] = None
              /\ n \in ConfiguredNames => servers[p][n] = Server(ConfOfName(n))

\* C7: with no conflict, for a request whose first name is not 'all', the
\* dict's keys are exactly the requested names, with a null entry for each
\* name without configuration and the server for each configured name.
C7_NullForUnknown ==
    \A p \in Procs :
        (/\ Resolved(p) /\ config.servers_msg_list = <<>>
         /\ ~AllSentinel(inv[p].args.args))
        => /\ pc[p] = "returned"
           /\ DOMAIN servers[p] = Requested(inv[p].args.args)
           /\ \A n \in Requested(inv[p].args.args) :
                 /\ n \notin ConfiguredNames => servers[p][n] = None
                 /\ n \in ConfiguredNames => servers[p][n] = Server(ConfOfName(n))

\* an unknown name first, a configured one after it
C7_Witness ==
    \E p \in Procs :
        /\ Resolved(p) /\ config.servers_msg_list = <<>>
        /\ ~IsNone(inv[p].args.args) /\ Len(inv[p].args.args.server_name) = 2
        /\ inv[p].args.args.server_name[1] = UnknownName
        /\ inv[p].args.args.server_name[2] \in ConfiguredNames
        /\ servers[p][UnknownName] = None
        /\ servers[p][inv[p].args.args.server_name[2]] # None

\* C8 as claimed: with conflicts and on_error_stop, whatever the request and
\* the other flags, no server is returned and every conflict message is
\* emitted as an error exactly once.
C8_ConflictsAlwaysEmitted ==
    \A p \in Procs :
        (/\ Resolved(p) /\ config.servers_msg_list # <<>>
         /\ inv[p].args.on_error_stop)
        => /\ servers[p] = EmptyDict
           /\ ctx[p].out = ConflictErrors

\* C8: with conflicts and on_error_stop, whatever the request and the skip
\* flags, the call ends the process and returns no server; unless
\* suppress_error, every conflict message is emitted as an error exactly
\* once, in list order, and nothing else is emitted; with suppress_error
\* nothing is emitted.
C8_ConflictsStop ==
    \A p \in Procs :
        (/\ Resolved(p) /\ config.servers_msg_list # <<>>
         /\ inv[p].args.on_error_stop)
        => /\ pc[p] = "done" /\ ctx[p].exited
           /\ servers[p] = EmptyDict
           /\ ~inv[p].args.suppress_error => ctx[p].out = ConflictErrors
           /\ inv[p].args.suppress_error => ctx[p].out = <<>>

\* conflicts stop a request for two names, with both skip flags set
C8_Witness ==
    \E p \in Procs :
        /\ Resolved(p) /\ config.servers_msg_list # <<>>
        /\ inv[p].args.on_error_stop /\ ~inv[p].args.suppress_error
        /\ inv[p].args.skip_inactive /\ inv[p].args.skip_disabled
        /\ ~IsNone(inv[p].args.args) /\ Len(inv[p].args.args.server_name) = 2
        /\ inv[p].args.args.server_name[1] \in ConfiguredNames
        /\ ctx[p].exit_code = 1 /\ Len(ctx[p].out) = 2

-----------------------------------------------------------------------------
(* Conflicts come first *)

\* a diagnostic about one server, or a use of one
PerTarget(e) ==
    \/ e.level \in {"op", "init", "result", "set"}
    \/ e.kind \in {"unknown_server", "disabled", "not_active", "skip_inactive", "skip_disabled", "unknown_backup"}

NoPerTarget(out) == \A i \in 1..Len(out) : ~PerTarget(out[i])
LockRefused(out) == Has(out, "info", "another_cron") \/ Has(out, "error", "permission_denied")
NotDiagnose(p) == inv[p].cmd \in (Commands \ {"diagnose"}) \cup {"cron"}

\* the trace without the choice of the output writer
IsMessage(e) == e.level # "writer"
Messages(out) == SelectSeq(out, IsMessage)

\* C9 as claimed: with conflicts, every command but diagnose emits the
\* conflict messages and terminates with no per-target diagnostic and no
\* operation of the collaborator (runs the user interrupted left aside).
C9_ConflictsAlwaysReported ==
    \A p \in Procs :
        (/\ config.servers_msg_list # <<>> /\ NotDiagnose(p)
         /\ pc[p] = "done" /\ ~Interrupted(ctx[p].out))
        => /\ NoPerTarget(ctx[p].out)
           /\ Messages(ctx[p].out) = ConflictErrors

\* C9: with conflicts, no command but diagnose ever emits a per-target
\* diagnostic or calls the collaborator; unless interrupted, each emits the
\* conflict messages as errors and nothing else and terminates with a
\* non-zero status, except a cron that does not get the lock (busy, or
\* permission denied), which reports that and emits no conflict message.
C9_ConflictsFirst ==
    \A p \in Procs :
        (config.servers_msg_list # <<>> /\ NotDiagnose(p))
        => /\ NoPerTarget(ctx[p].out)
           /\ (pc[p] = "done" /\ ~Interrupted(ctx[p].out)) =>
                 IF LockRefused(ctx[p].out)
                 THEN inv[p].cmd = "cron" /\ Len(ctx[p].out) = 1
                 ELSE Messages(ctx[p].out) = ConflictErrors /\ ctx[p].exit_code # 0

\* conflicts stop a delete of an existing backup of a disabled server
C9_Witness ==
    \E p \in Procs :
        /\ config.servers_msg_list # <<>> /\ pc[p] = "done"
        /\ inv[p].cmd = "delete"
        /\ config.servers # <<>> /\ config.servers[1].disabled
        /\ inv[p].args.server_name = config.servers[1].name
        /\ parse_backup_id(CatalogueOf(inv[p].args), inv[p].args) # None
        /\ ctx[p].out = ConflictErrors

-----------------------------------------------------------------------------
(* Classifying one server *)

Classified(p) == inv[p].cmd = "server_error_output" /\ pc[p] \in {"returned", "done"}

\* the messages of a disabled server at one level, in the order of its list
DisabledMessages(conf, level) == [i \in 1..Len(conf.msg_list) |-> Ev(level, "disabled", conf.msg_list[i])]

\* C10: for a disabled server, server_error_output with is_error emits every
\* message of the server's list as an error, once each, in list order, and
\* ends the process with a non-zero status; without is_error it emits the
\* same messages in the same order as warnings, no error, and returns.
C10_DisabledMessages ==
    \A p \in Procs :
        (Classified(p) /\ inv[p].args.server[1].config.disabled) =>
            LET conf == inv[p].args.server[1].config IN
            /\ conf.msg_list # <<>>
            /\ inv[p].args.is_error =>
                  /\ ctx[p].out = DisabledMessages(conf, "error")
                  /\ pc[p] = "done" /\ ctx[p].exited /\ ctx[p].exit_code # 0
            /\ ~inv[p].args.is_error =>
                  /\ ctx[p].out = DisabledMessages(conf, "warning")
                  /\ pc[p] = "returned" /\ ~ctx[p].exited
                  /\ ~error_occurred(ctx[p].out)

\* a disabled server whose two messages are not in sorted order, as errors
C10_Witness ==
    \E p \in Procs :
        /\ Classified(p) /\ inv[p].args.server[1].config.disabled
        /\ inv[p].args.is_error /\ pc[p] = "done"
        /\ Len(ctx[p].out) = 2
        /\ LexLess(ctx[p].out[2].arg, ctx[p].out[1].arg)


\* the 'Not active server' message, at any level
SaysNotActive(out) == \E i \in 1..Len(out) : out[i].kind = "not_active"

\* C11: for a disabled server, server_error_output never emits the
\* 'Not active server' message, whatever is_error, check_active and the
\* server's active flag are.
C11_DisabledSubsumesActive ==
    \A p \in Procs :
        (Classified(p) /\ inv[p].args.server[1].config.disabled)
        => ~SaysNotActive(ctx[p].out)

\* a disabled server that is not active either, classified as a warning with
\* the active check asked for
C11_Witness ==
    \E p \in Procs :
        /\ Classified(p) /\ inv[p].args.server[1].config.disabled
        /\ ~inv[p].args.server[1].config.active
        /\ inv[p].args.check_active /\ ~inv[p].args.is_error
        /\ pc[p] = "returned" /\ Len(ctx[p].out) = 2

\* C12: for a server that is not disabled, server_error_output with
\* check_active on a server that is not active emits exactly one 'not
\* active' message: as an error, ending the run with a non-zero status, when
\* is_error; as a warning, returning to the caller, otherwise.  For an
\* active server, or without check_active, it emits nothing and returns.
C12_NotActiveMessage ==
    \A p \in Procs :
        (Classified(p) /\ ~inv[p].args.server[1].config.disabled) =>
            LET conf == inv[p].args.server[1].config IN
            IF inv[p].args.check_active /\ ~conf.active
            THEN IF inv[p].args.is_error
                 THEN /\ ctx[p].out = <<Ev("error", "not_active", conf.name)>>
                      /\ pc[p] = "done" /\ ctx[p].exited /\ ctx[p].exit_code # 0
                 ELSE /\ ctx[p].out = <<Ev("warning", "not_active", conf.name)>>
                      /\ pc[p] = "returned" /\ ~ctx[p].exited
            ELSE ctx[p].out = <<>> /\ pc[p] = "returned" /\ ~ctx[p].exited

\* a server that is not active, classified as an error
C12_Witness ==
    \E p \in Procs :
        /\ Classified(p) /\ ~inv[p].args.server[1].config.disabled
        /\ ~inv[p].args.server[1].config.active
        /\ inv[p].args.check_active /\ inv[p].args.is_error
        /\ pc[p] = "done" /\ ctx[p].exit_code = 1


-----------------------------------------------------------------------------
(* Resolving a backup id *)

IsCall(e) == e.level = "call"
\* the calls of parse_backup_id p has made: id, catalogue then, record returned
ParseCalls(p) == SelectSeq(ctx[p].out, IsCall)
IdOf(e) == e.arg
StoreOf(e) == e.more[1]
RetOf(e) == e.more[2]

\* the record the catalogue bs has for the id: the newest for 'latest' and
\* 'last', the oldest for 'oldest' and 'first', the one of that id otherwise
RecordIn(bs, id, ret) ==
    IF id \in {LATEST, LAST} THEN ret = IF bs = <<>> THEN None ELSE Some(bs[Len(bs)])
    ELSE IF id \in {OLDEST, FIRST} THEN ret = IF bs = <<>> THEN None ELSE Some(bs[1])
    ELSE IF \E i \in 1..Len(bs) : bs[i].backup_id = id
    THEN ret # None /\ ret[1] \in Elems(bs) /\ ret[1].backup_id = id
    ELSE ret = None

SameAlias(a, b) == a = b \/ {a, b} \subseteq {LATEST, LAST} \/ {a, b} \subseteq {OLDEST, FIRST}

\* C13: on the same catalogue parse_backup_id returns the same record for
\* 'latest' as for 'last', for 'oldest' as for 'first', and for the same id
\* asked twice; every call returns the record of the catalogue as it is at
\* that call, not a record of an earlier call; and a call changes nothing
\* but the caller's own trace.
C13_AliasesAndNoCache ==
    /\ [](\A p \in Procs : \A i, j \in 1..Len(ParseCalls(p)) :
            LET a == ParseCalls(p)[i]
                b == ParseCalls(p)[j]
            IN  /\ RecordIn(StoreOf(a), IdOf(a), RetOf(a))
                /\ (StoreOf(a) = StoreOf(b) /\ SameAlias(IdOf(a), IdOf(b))) => RetOf(a) = RetOf(b))
    /\ [][ctx' # ctx => UNCHANGED <<config, backups, lock, lock_perm, inv, servers, todo>>]_vars

\* 'last' then 'latest', with the catalogue changed in between: two records
C13_Witness ==
    \E p \in Procs :
        /\ Len(ParseCalls(p)) = 2
        /\ IdOf(ParseCalls(p)[1]) = LAST /\ IdOf(ParseCalls(p)[2]) = LATEST
        /\ StoreOf(ParseCalls(p)[1]) # StoreOf(ParseCalls(p)[2])
        /\ RetOf(ParseCalls(p)[1]) # None /\ RetOf(ParseCalls(p)[2]) # None
        /\ RetOf(ParseCalls(p)[1]) # RetOf(ParseCalls(p)[2])
        /\ Len(StoreOf(ParseCalls(p)[1])) = 2


-----------------------------------------------------------------------------
(* The commands on one backup *)

OnOneBackup == {"recover", "show_backup", "list_files", "delete"}

\* p ran a command on one backup to its end
RanOnBackup(p) == inv[p].cmd \in OnOneBackup /\ pc[p] = "done"

\* the run gets as far as resolving the backup id: no conflict, a configured
\* server and, for the commands that end the run on a server in error
\* (recover and delete), a server neither disabled nor inactive
ReachesBackup(p) ==
    /\ config.servers_msg_list = <<>>
    /\ inv[p].args.server_name \in ConfiguredNames
    /\ inv[p].cmd \in {"recover", "delete"} =>
          LET conf == ConfOfName(inv[p].args.server_name) IN conf.active /\ ~conf.disabled

BackupOf(p) == parse_backup_id(CatalogueOf(inv[p].args), inv[p].args)

IsUnknownBackup(e) == e.kind = "unknown_backup"
IsFault(e) == e.level = "exception"

\* C14: in recover, show-backup, list-files and delete, when the backup id
\* resolves to nothing the command emits exactly one "Unknown backup '<id>'
\* for server '<name>'" error, calls no operation of the collaborator, raises
\* no exception and ends with a non-zero status.
C14_UnknownBackupReported ==
    \A p \in Procs :
        (RanOnBackup(p) /\ ReachesBackup(p) /\ BackupOf(p) = None)
        => /\ SelectSeq(ctx[p].out, IsUnknownBackup)
                = <<EvX("error", "unknown_backup", inv[p].args.backup_id, inv[p].args.server_name)>>
           /\ Ops(ctx[p].out) = <<>>
           /\ SelectSeq(ctx[p].out, IsFault) = <<>>
           /\ ctx[p].exit_code # 0

\* 'latest' on a server without backups, and an id no backup has on a server
\* with backups
C14_Witness ==
    /\ \E p \in Procs :
        /\ RanOnBackup(p) /\ ReachesBackup(p) /\ BackupOf(p) = None
        /\ inv[p].cmd \in {"delete", "list_files"}
        /\ \/ inv[p].args.backup_id = LATEST /\ CatalogueOf(inv[p].args) = <<>>
           \/ inv[p].args.backup_id = Bid(MaxBackups + 1) /\ Len(CatalogueOf(inv[p].args)) = MaxBackups
        /\ Has(ctx[p].out, "error", "unknown_backup")


-----------------------------------------------------------------------------
(* Relocation rules *)

\* the position of the first ':' of a rule, 0 when it has none
FirstColon(rule) ==
    IF \E k \in 1..Len(rule) : rule[k] = Colon
    THEN CHOOSE k \in 1..Len(rule) : rule[k] = Colon /\ \A j \in 1..(k - 1) : rule[j] # Colon
    ELSE 0

NameOf(rule) == SubSeq(rule, 1, FirstColon(rule) - 1)
LocationOf(rule) == SubSeq(rule, FirstColon(rule) + 1, Len(rule))

\* NAME:LOCATION, neither part empty
WellFormed(rule) == FirstColon(rule) > 1 /\ FirstColon(rule) < Len(rule)

\* the rules were decoded by p
Decoded(p) == inv[p].cmd = "recover_rules" /\ pc[p] \in {"returned", "done"}

\* C15: for every sequence of well-formed NAME:LOCATION rules the decoded
\* mapping has exactly the names of the rules as keys and gives each name the
\* location of its last rule, a location being all that follows the first ':'
\* of the rule; no error is emitted.
C15_LastRuleWins ==
    \A p \in Procs :
        LET rules == inv[p].args.tablespace IN
        (Decoded(p) /\ \A i \in 1..Len(rules) : WellFormed(rules[i]))
        => /\ pc[p] = "returned" /\ ctx[p].out = <<>>
           /\ DOMAIN servers[p] = {NameOf(rules[i]) : i \in 1..Len(rules)}
           /\ \A i \in 1..Len(rules) :
                 (\A j \in (i + 1)..Len(rules) : NameOf(rules[j]) # NameOf(rules[i]))
                 => servers[p][NameOf(rules[i])] = LocationOf(rules[i])

\* two rules for one name, the second with a ':' in its location
C15_Witness ==
    \E p \in Procs :
        LET rules == inv[p].args.tablespace IN
        /\ Decoded(p) /\ Len(rules) = 2
        /\ WellFormed(rules[1]) /\ WellFormed(rules[2])
        /\ NameOf(rules[1]) = NameOf(rules[2])
        /\ LocationOf(rules[1]) # LocationOf(rules[2])
        /\ \E k \in 1..Len(LocationOf(rules[2])) : LocationOf(rules[2])[k] = Colon
        /\ servers[p][TS1] = LocationOf(rules[2])


\* p ran a recover with relocation rules on a sound server's last backup
RecoveredWithRules(p) ==
    /\ inv[p].cmd = "recover" /\ pc[p] = "done"
    /\ inv[p].args.tablespace # None
    /\ config.servers_msg_list = <<>>
    /\ ReachesBackup(p) /\ BackupOf(p) # None /\ BackupOf(p)[1].status = "DONE"

RulesOf(p) == inv[p].args.tablespace[1]
IsInvalidRule(e) == e.kind = "invalid_rule"

\* C16: a recover with a rule that has no ':', an empty name or an empty
\* location emits the parse error of the first such rule of the input, and
\* no other rule's, and does not call Server.recover.
C16_MalformedRuleRejected ==
    \A p \in Procs :
        (RecoveredWithRules(p) /\ \E i \in 1..Len(RulesOf(p)) : ~WellFormed(RulesOf(p)[i]))
        => LET first == CHOOSE i \in 1..Len(RulesOf(p)) :
                            /\ ~WellFormed(RulesOf(p)[i])
                            /\ \A j \in 1..(i - 1) : WellFormed(RulesOf(p)[j])
           IN  /\ SelectSeq(ctx[p].out, IsInvalidRule) = <<Ev("error", "invalid_rule", RulesOf(p)[first])>>
               /\ Ops(ctx[p].out) = <<>>

\* what recover does: only a rule without ':' is a parse error; a rule with
\* an empty name or location is decoded like any other
C16_OnlyColonRequired ==
    \A p \in Procs :
        RecoveredWithRules(p) =>
            IF \E i \in 1..Len(RulesOf(p)) : FirstColon(RulesOf(p)[i]) = 0
            THEN LET first == CHOOSE i \in 1..Len(RulesOf(p)) :
                                  /\ FirstColon(RulesOf(p)[i]) = 0
                                  /\ \A j \in 1..(i - 1) : FirstColon(RulesOf(p)[j]) # 0
                 IN  /\ ctx[p].out = <<Ev("error", "invalid_rule", RulesOf(p)[first])>>
                     /\ ctx[p].exit_code # 0
            ELSE SelectSeq(ctx[p].out, IsInvalidRule) = <<>>

\* a rule with an empty location reaches Server.recover
C16_Witness ==
    \E p \in Procs :
        /\ RecoveredWithRules(p)
        /\ RulesOf(p) = <<TS1 \o <<Colon>>>>
        /\ Len(Ops(ctx[p].out)) = 1
        /\ Ops(ctx[p].out)[1].more[2][TS1] = <<>>


\* the rules of p were all decoded: each has a ':'
RulesDecoded(p) == RecoveredWithRules(p) /\ \A i \in 1..Len(RulesOf(p)) : FirstColon(RulesOf(p)[i]) # 0
RuleNames(p) == {NameOf(RulesOf(p)[i]) : i \in 1..Len(RulesOf(p))}
TablespacesOf(p) == BackupOf(p)[1].tablespaces
IsInvalidName(e) == e.kind = "invalid_tablespace_name"

\* C17: in a recover whose rules were decoded, if a name of the mapping is not
\* a tablespace of the backup, exactly one validation error is emitted, naming
\* one such name and listing all the tablespaces of the backup, nothing else
\* is emitted and Server.recover is not called; so it is for every non-empty
\* rule set when the backup has no tablespace.  When every name is a
\* tablespace of the backup no validation error is emitted.
C17_UnknownTablespaceRejected ==
    \A p \in Procs :
        RulesDecoded(p) =>
            IF RuleNames(p) \subseteq Elems(TablespacesOf(p))
            THEN SelectSeq(ctx[p].out, IsInvalidName) = <<>>
            ELSE /\ Len(ctx[p].out) = 1
                 /\ ctx[p].out[1].level = "error" /\ IsInvalidName(ctx[p].out[1])
                 /\ ctx[p].out[1].arg \in RuleNames(p) \ Elems(TablespacesOf(p))
                 /\ ctx[p].out[1].more = TablespacesOf(p)
                 /\ ctx[p].exit_code # 0

\* two names the backup does not have, the error naming the second rule's;
\* the backup has tablespaces and the other name is unknown as well
C17_Witness ==
    \E p \in Procs :
        /\ RulesDecoded(p) /\ Len(RulesOf(p)) = 2
        /\ TablespacesOf(p) # <<>>
        /\ NameOf(RulesOf(p)[1]) \notin Elems(TablespacesOf(p))
        /\ NameOf(RulesOf(p)[1]) # NameOf(RulesOf(p)[2])
        /\ Len(ctx[p].out) = 1 /\ IsInvalidName(ctx[p].out[1])
        /\ ctx[p].out[1].arg = NameOf(RulesOf(p)[2])


HasColon(s) == \E i \in 1..Len(s) : s[i] = Colon
IsSet(e) == e.level = "set"
IsError(e) == e.level = "error"

\* p ran a recover towards a destination with a ':' in it
RecoveredToRemote(p) ==
    inv[p].cmd = "recover" /\ pc[p] = "done" /\ HasColon(inv[p].args.destination_directory)

\* C18: a recover whose destination directory contains ':' never calls
\* Server.recover and never changes the server's retry configuration, and it
\* ends with an error reported and a non-zero status, whatever the server
\* name, the server's state, the backup id and the rules are.
C18_RemoteDestinationRejected ==
    \A p \in Procs :
        RecoveredToRemote(p)
        => /\ Ops(ctx[p].out) = <<>>
           /\ SelectSeq(ctx[p].out, IsSet) = <<>>
           /\ SelectSeq(ctx[p].out, IsError) # <<>>
           /\ ctx[p].exited /\ ctx[p].exit_code # 0

\* everything else about the request is right, the retry options are given:
\* the ':' of the destination is the only error
C18_Witness ==
    \E p \in Procs :
        /\ RecoveredToRemote(p) /\ RulesDecoded(p)
        /\ RulesOf(p) # <<>> /\ RuleNames(p) \subseteq Elems(TablespacesOf(p))
        /\ inv[p].args.retry_sleep # None /\ inv[p].args.retry_times # None
        /\ ctx[p].out = <<Ev("error", "destination_colon", Empty)>>


-----------------------------------------------------------------------------
(* The commands over a list of servers *)

OverServers == {"list_server", "cron", "backup", "list_backup", "status", "rebuild_xlogdb", "show_server", "check"}

\* what the loop of a command emits for the server it is at: its diagnostics
\* and the calls of the collaborator
InLoop(e) ==
    \/ e.level \in {"op", "init", "result", "set"}
    \/ e.kind \in {"unknown_server", "disabled", "not_active"}

\* the server an event of the loop is about; a disabled server's messages
\* are its name and one more character
TargetOf(e) == IF e.kind = "disabled" THEN SubSeq(e.arg, 1, Len(e.arg) - 1) ELSE e.arg

LoopTargets(out) == LET evs == SelectSeq(out, InLoop) IN [i \in 1..Len(evs) |-> TargetOf(evs[i])]
OpTargets(out) == Args_of(Ops(out))

\* C19: a command over a list of servers goes through them one after the
\* other in lexicographic order of their names, whatever the order of the
\* names in the request: in its trace the diagnostics and the operation of a
\* server all come before those of any server of a greater name, none after,
\* and the collaborator's operation is called at most once per server.
C19_SortedOneByOne ==
    \A p \in Procs :
        inv[p].cmd \in OverServers =>
            LET names == LoopTargets(ctx[p].out) IN
            /\ \A i, j \in 1..Len(names) : i < j => names[i] = names[j] \/ LexLess(names[i], names[j])
            /\ Ascending(OpTargets(ctx[p].out))

\* status of two servers asked for in descending order, the first one
\* disabled: both are reported, in ascending order
C19_Witness ==
    \E p \in Procs :
        /\ inv[p].cmd = "status" /\ pc[p] = "done"
        /\ Len(inv[p].args.server_name) = 2
        /\ LexLess(inv[p].args.server_name[2], inv[p].args.server_name[1])
        /\ Requested(inv[p].args) \subseteq ConfiguredNames
        /\ ConfOfName(inv[p].args.server_name[2]).disabled
        /\ OpTargets(ctx[p].out) = <<inv[p].args.server_name[2], inv[p].args.server_name[1]>>
        /\ Len(LoopTargets(ctx[p].out)) > 4


WithNameList == {"backup", "list_backup", "status", "rebuild_xlogdb", "show_server", "check"}

\* p ran a command on an explicit list of names (the first is not 'all'),
\* with no conflict in the configuration
RanOnNames(p) ==
    /\ inv[p].cmd \in WithNameList /\ pc[p] = "done"
    /\ config.servers_msg_list = <<>>
    /\ inv[p].args.server_name[1] # ALL

Unknown(n) == n \notin ConfiguredNames
Sound(n) == n \in ConfiguredNames /\ ConfOfName(n).active /\ ~ConfOfName(n).disabled

UnknownErrors(out, n) == LET Is(e) == e.level = "error" /\ e.kind = "unknown_server" /\ e.arg = n IN Len(SelectSeq(out, Is))
OpsOn(out, n) == LET Is(e) == IsOp(e) /\ e.arg = n IN Len(SelectSeq(out, Is))
About(out, n) == LET Is(e) == InLoop(e) /\ TargetOf(e) = n IN Len(SelectSeq(out, Is))

\* C20 as claimed: every requested name without configuration gets exactly
\* one "Unknown server" error and no operation, and every requested server
\* that is neither disabled nor inactive gets the command's operation.
C20_UnknownNeverLost ==
    \A p \in Procs :
        (RanOnNames(p) /\ \E n \in Requested(inv[p].args) : Unknown(n)) =>
            \A n \in Requested(inv[p].args) :
                /\ Unknown(n) => UnknownErrors(ctx[p].out, n) = 1 /\ OpsOn(ctx[p].out, n) = 0
                /\ Sound(n) => OpsOn(ctx[p].out, n) = 1

\* the requested servers at which the command ends the run: for backup and
\* rebuild_xlogdb, the configured ones that are disabled or not active
EndsRun(p, n) ==
    /\ inv[p].cmd \in {"backup", "rebuild_xlogdb"}
    /\ n \in ConfiguredNames /\ ~Sound(n)

\* the loop of p gets to n: no requested server of a lesser name ends the run
Reaches(p, n) == \A m \in Requested(inv[p].args) : EndsRun(p, m) => ~LexLess(m, n)

\* C20: in a command on an explicit name list, every requested name without
\* configuration that the loop gets to has exactly one "Unknown server" error
\* and no operation, and does not end the run: every requested server that is
\* neither disabled nor inactive and that the loop gets to has the command's
\* operation called once.  The loop gets to every name in list-backup,
\* status, show-server and check; in backup and rebuild-xlogdb it gets to the
\* names up to the first, in name order, that is a disabled or inactive
\* server, and nothing is emitted for the names after that one.
C20_UnknownDoesNotStop ==
    \A p \in Procs :
        RanOnNames(p) =>
            \A n \in Requested(inv[p].args) :
                IF Reaches(p, n)
                THEN /\ Unknown(n) => UnknownErrors(ctx[p].out, n) = 1 /\ OpsOn(ctx[p].out, n) = 0
                     /\ Sound(n) => OpsOn(ctx[p].out, n) = 1
                ELSE About(ctx[p].out, n) = 0

\* a backup of a name without configuration and of a sound server of a
\* greater name: the error for the first, then the backup of the second
C20_Witness ==
    \E p \in Procs :
        /\ RanOnNames(p) /\ inv[p].cmd = "backup"
        /\ \E n, m \in Requested(inv[p].args) :
              /\ Unknown(n) /\ Sound(m) /\ LexLess(n, m)
              /\ UnknownErrors(ctx[p].out, n) = 1 /\ OpsOn(ctx[p].out, m) = 1
              /\ ctx[p].out[1].kind = "unknown_server"


-----------------------------------------------------------------------------
(* Errors and the exit status *)

\* the errors of the taxonomy, as the commands report them
ErrorKinds == {"conflict", "disabled", "not_active", "unknown_server", "unknown_backup", "invalid_rule", "invalid_tablespace_name", "permission_denied"}
TaxonomyError(e) == e.level = "error" /\ e.kind \in ErrorKinds
ReportsError(out) == \E i \in 1..Len(out) : TaxonomyError(out[i])
LockWasBusy(out) == Has(out, "info", "another_cron")

-----------------------------------------------------------------------------
(* Skipped servers *)

\* a configured server the flags of the call p made leave in the result
Kept(p, n) ==
    /\ ~(inv[p].args.skip_inactive /\ ~ConfOfName(n).active)
    /\ ~(inv[p].args.skip_disabled /\ ConfOfName(n).disabled)

NoticesOf(out, n) == LET Is(e) == e.arg = n /\ e.kind \in {"skip_inactive", "skip_disabled"} IN Len(SelectSeq(out, Is))
IsInfo(e) == e.level = "info"

\* C22: with no conflict, get_server_list for the all-sentinel returns
\* exactly the configured servers that are not both asked to be skipped and
\* inactive (skip_inactive) or disabled (skip_disabled); each server left out
\* has exactly one skip notice, as information, and nothing else is emitted.
\* For an explicit name list the result does not depend on the skip flags
\* and nothing is emitted.
C22_SkipFlags ==
    \A p \in Procs :
        (Resolved(p) /\ config.servers_msg_list = <<>>) =>
            /\ pc[p] = "returned"
            /\ IF AllSentinel(inv[p].args.args)
               THEN /\ DOMAIN servers[p] = {n \in ConfiguredNames : Kept(p, n)}
                    /\ \A n \in DOMAIN servers[p] : servers[p][n] = Server(ConfOfName(n))
                    /\ \A n \in ConfiguredNames : NoticesOf(ctx[p].out, n) = IF Kept(p, n) THEN 0 ELSE 1
                    /\ SelectSeq(ctx[p].out, IsInfo) = ctx[p].out
                    /\ Len(ctx[p].out) = Cardinality({n \in ConfiguredNames : ~Kept(p, n)})
               ELSE /\ DOMAIN servers[p] = Requested(inv[p].args.args)
                    /\ \A n \in DOMAIN servers[p] :
                          servers[p][n] = IF n \in ConfiguredNames THEN Server(ConfOfName(n)) ELSE None
                    /\ ctx[p].out = <<>>

\* both flags set, for all servers: one is inactive and disabled, the other
\* disabled only; each has its one notice
C22_Witness ==
    \E p \in Procs :
        /\ Resolved(p) /\ config.servers_msg_list = <<>>
        /\ AllSentinel(inv[p].args.args)
        /\ inv[p].args.skip_inactive /\ inv[p].args.skip_disabled
        /\ \E n, m \in ConfiguredNames :
              /\ ~ConfOfName(n).active /\ ConfOfName(n).disabled
              /\ ConfOfName(m).active /\ ConfOfName(m).disabled
        /\ servers[p] = EmptyDict /\ Len(ctx[p].out) = 2
        /\ ctx[p].out[1].kind # ctx[p].out[2].kind


-----------------------------------------------------------------------------
(* Dangerous commands on a server in error *)

\* p ran a command on one backup of a configured server that is disabled or
\* not active, with no conflict
OnServerInError(p) ==
    /\ RanOnBackup(p)
    /\ config.servers_msg_list = <<>>
    /\ inv[p].args.server_name \in ConfiguredNames
    /\ LET conf == ConfOfName(inv[p].args.server_name) IN conf.disabled \/ ~conf.active

\* what is said of the state of the server of p: its disabled reasons, or
\* when it is not disabled the one 'Not active server' message
StateNotes(p, level) ==
    LET conf == ConfOfName(inv[p].args.server_name)
    IN  IF conf.disabled THEN DisabledMessages(conf, level)
        ELSE <<Ev(level, "not_active", conf.name)>>

OpKindOf(cmd) == IF cmd = "show_backup" THEN "show_backup" ELSE "get_list_of_files"

\* C23: on a server that is disabled or not active, recover and delete emit
\* the disabled reasons (or the one 'Not active server' message) as errors
\* and end the run there with a non-zero status: nothing is said of the
\* backup id and no operation of the collaborator is invoked. show-backup
\* and list-files emit the same as warnings and go on: the backup the id
\* resolves to is handed to their operation, and with no other message the
\* status is zero; an id that resolves to nothing is reported as unknown.
C23_DangerousStopOthersWarn ==
    \A p \in Procs :
        OnServerInError(p) =>
            IF inv[p].cmd \in {"recover", "delete"}
            THEN /\ ctx[p].out = StateNotes(p, "error")
                 /\ Ops(ctx[p].out) = <<>>
                 /\ SelectSeq(ctx[p].out, IsUnknownBackup) = <<>>
                 /\ ctx[p].exited /\ ctx[p].exit_code # 0
            ELSE LET n == Len(StateNotes(p, "warning"))
                     rest == SubSeq(ctx[p].out, n + 1, Len(ctx[p].out))
                 IN  /\ Len(ctx[p].out) > n
                     /\ SubSeq(ctx[p].out, 1, n) = StateNotes(p, "warning")
                     /\ IF BackupOf(p) = None
                        THEN /\ rest = <<EvX("error", "unknown_backup", inv[p].args.backup_id, inv[p].args.server_name)>>
                        ELSE /\ Ops(rest) = <<EvX("op", OpKindOf(inv[p].cmd), inv[p].args.server_name, BackupOf(p))>>
                             /\ Head(rest) = Head(Ops(rest))
                             /\ ~\E i \in 1..Len(ctx[p].out) : ctx[p].out[i].level = "error"
                             /\ ctx[p].exit_code = 0

\* a recover of the last backup, which is there and DONE, on a disabled server
C23_Witness ==
    \E p \in Procs :
        /\ OnServerInError(p)
        /\ inv[p].cmd = "recover"
        /\ ConfOfName(inv[p].args.server_name).disabled
        /\ inv[p].args.backup_id = LATEST
        /\ BackupOf(p) # None /\ BackupOf(p)[1].status = "DONE"
        /\ ~HasColon(inv[p].args.destination_directory)
        /\ Len(ctx[p].out) > 0 /\ ctx[p].out[1].level = "error" /\ ctx[p].out[1].kind = "disabled"
        /\ ctx[p].exit_code # 0


-----------------------------------------------------------------------------
(* The status of the backup *)

IsRecover(e) == e.level = "op" /\ e.kind = "recover"

\* the operation of the collaborator each command but recover hands its backup to
OpOf(cmd) == IF cmd = "show_backup" THEN "show_backup" ELSE IF cmd = "list_files" THEN "get_list_of_files" ELSE "delete_backup"

\* p got as far as the backup, and its id resolves to a record
ResolvesBackup(p) == RanOnBackup(p) /\ ReachesBackup(p) /\ BackupOf(p) # None

\* C24: the backup record of every invocation of Server.recover has the
\* status DONE; a recover whose id, literal or alias, resolves to a record
\* in another status emits the one "Unknown backup" error, invokes no
\* operation and ends with a non-zero status; show-backup, list-files and
\* delete hand the record their id resolves to, whatever its status, to
\* their operation and say nothing of an unknown backup.
C24_RecoverOnlyDone ==
    \A p \in Procs :
        /\ \A i \in 1..Len(ctx[p].out) : IsRecover(ctx[p].out[i]) => ctx[p].out[i].more[1].status = "DONE"
        /\ (ResolvesBackup(p) /\ inv[p].cmd = "recover" /\ BackupOf(p)[1].status # "DONE") =>
              /\ SelectSeq(ctx[p].out, IsUnknownBackup)
                    = <<EvX("error", "unknown_backup", inv[p].args.backup_id, inv[p].args.server_name)>>
              /\ Ops(ctx[p].out) = <<>>
              /\ ctx[p].exit_code # 0
        /\ (ResolvesBackup(p) /\ inv[p].cmd # "recover") =>
              /\ Ops(ctx[p].out) = <<EvX("op", OpOf(inv[p].cmd), inv[p].args.server_name, BackupOf(p))>>
              /\ SelectSeq(ctx[p].out, IsUnknownBackup) = <<>>

\* a recover of 'latest' on a sound server whose last backup failed after
\* one that is DONE
C24_Witness ==
    \E p \in Procs :
        /\ ResolvesBackup(p) /\ inv[p].cmd = "recover"
        /\ inv[p].args.backup_id = LATEST
        /\ Len(CatalogueOf(inv[p].args)) = 2
        /\ CatalogueOf(inv[p].args)[1].status = "DONE"
        /\ BackupOf(p)[1].status = "FAILED"
        /\ ~HasColon(inv[p].args.destination_directory)
        /\ Has(ctx[p].out, "error", "unknown_backup")
        /\ Ops(ctx[p].out) = <<>>

====
